---------------------------- MODULE Spec2Model ----------------------------
(***************************************************************************)
(* A model of libparsepol's PReg codec: the stream parser and the writer   *)
(* of src/src/parser.cpp (the PRegParserPrivate revision that starts at    *)
(* line 329), the byte primitives of src/src/binary.cpp (the revision that *)
(* starts at line 246) and src/inc/binary.hpp, and the transcoding and     *)
(* byte-order helpers of src/inc/encoding.hpp.                             *)
(*                                                                         *)
(* Bytes are numbers 0..255.  A std::string is the sequence of its bytes,  *)
(* a char16_t string the sequence of its code units.  An unsigned integer  *)
(* of width w is the sequence of its w/8 base-256 digits, least            *)
(* significant first, so that no value is cut to TLC's 32-bit              *)
(* arithmetic; on the little-endian host the code is built for, that is    *)
(* also the integer's image in memory.                                     *)
(*                                                                         *)
(* Every operation that can throw returns a record [kind, st, val]:        *)
(*   kind = "ok"     the call returned val, leaving the stream as st;      *)
(*   kind = "throw"  the call left by an exception;                        *)
(*   kind = "crash"  the call ran into undefined behaviour and the build   *)
(*                   did not survive it.                                   *)
(* Where the code has undefined behaviour the parameter ub names the       *)
(* outcome ("proceed": the build carries on, "crash": it does not); the    *)
(* actions choose it freely.                                               *)
(***************************************************************************)
EXTENDS Integers, Sequences, FiniteSets, TLC

VARIABLES
    mode,      \* "bytes": parse the input, then write the result;
               \* "doc": write a document, then parse what was written
    input,     \* the bytes of the std::istream handed to parse
    wire,      \* how input was laid out: header and record fields
    rd,        \* the istream's state: [pos, eof, fail]
    ppc,       \* parse: "idle" | "loop" | "accepted" | "error" | "crashed"
    body,      \* parse's PolicyBody under construction (instructions)
    starts,    \* read position at which each appended instruction began
    file,      \* the PolicyFile handed to write: [has_body, instructions]
    os,        \* the std::ostream handed to write: [bytes, fail]
    wpc,       \* write: "idle" | "instr" | "true" | "error" | "crashed"
    wi,        \* number of instructions write has emitted
    iconvs,    \* number of iconv descriptors open (iconv_open less iconv_close)
    destroyed  \* whether the parser object has been destroyed

vars ==
    <<mode, input, wire, rd, ppc, body, starts, file, os, wpc, wi, iconvs, destroyed>>

(***************************************************************************)
(* Small helpers on sequences.                                             *)
(***************************************************************************)
RECURSIVE Concat(_)
Concat(ss) == IF ss = <<>> THEN <<>> ELSE Head(ss) \o Concat(Tail(ss))

Repeat(x, n) == [i \in 1..n |-> x]

Reverse(s) == [i \in 1..Len(s) |-> s[Len(s) + 1 - i]]

\* The code units held by an even number of bytes, little-endian.
UnitsOf(bytes) ==
    [i \in 1..(Len(bytes) \div 2) |-> bytes[2 * i - 1] + 256 * bytes[2 * i]]

\* The bytes of a sequence of code units, little-endian.
BytesOf(units) ==
    [i \in 1..(2 * Len(units)) |->
        IF i % 2 = 1 THEN units[(i + 1) \div 2] % 256 ELSE units[i \div 2] \div 256]

(***************************************************************************)
(* Results of calls.                                                       *)
(***************************************************************************)
Ok(st, val) == [kind |-> "ok", st |-> st, val |-> val]
Throw(st) == [kind |-> "throw", st |-> st, val |-> <<>>]
Crash(st) == [kind |-> "crash", st |-> st, val |-> <<>>]

\* std::optional: an empty one, or one holding v.
None == [has_value |-> FALSE, value |-> <<>>]
Some(v) == [has_value |-> TRUE, value |-> v]

(***************************************************************************)
(* std::istream.  read(n) on a stream that is not good() sets failbit and  *)
(* stores nothing; otherwise it stores the bytes that are there, and sets  *)
(* eofbit and failbit when they are fewer than n.                          *)
(***************************************************************************)
NewStream == [pos |-> 0, eof |-> FALSE, fail |-> FALSE]

read(data, st, n) ==
    IF st.fail \/ st.eof
    THEN [st |-> [st EXCEPT !.fail = TRUE], bytes |-> <<>>]
    ELSE LET avail == Len(data) - st.pos
             k == IF n <= avail THEN n ELSE avail
         IN  [st |-> [pos |-> st.pos + k, eof |-> k < n, fail |-> k < n],
              bytes |-> SubSeq(data, st.pos + 1, st.pos + k)]

\* seekg(off, std::ios::cur): clears eofbit, then moves unless the stream failed.
seekg(data, st, off) ==
    IF st.fail THEN [st EXCEPT !.eof = FALSE]
    ELSE IF st.pos + off < 0 \/ st.pos + off > Len(data)
         THEN [st EXCEPT !.eof = FALSE, !.fail = TRUE]
         ELSE [st EXCEPT !.eof = FALSE, !.pos = st.pos + off]

(***************************************************************************)
(* std::ostream.  write on a failed stream stores nothing.                 *)
(***************************************************************************)
ostream_write(o, bytes) ==
    IF o.fail THEN o ELSE [o EXCEPT !.bytes = @ \o bytes]

(***************************************************************************)
(* Byte order (encoding.hpp).  The host is little-endian: leToNative is    *)
(* the identity and beToNative swaps the bytes.  nativeToLe and nativeToBe *)
(* are declared as aliases of the same two functions.                      *)
(***************************************************************************)
byteswap(value) == Reverse(value)

leToNative(value) == value

\* A conversion from big-endian that leaves the bytes as they are.
beToNativeNoSwap(value) == value

beToNative(value) == byteswap(value)

nativeToLe(value) == leToNative(value)

nativeToBe(value) == beToNative(value)

(***************************************************************************)
(* bufferToIntegral<T, LE>: reads sizeof(T) bytes into the integer's       *)
(* memory and converts from the requested order.  On a failed read it      *)
(* returns the empty optional.                                             *)
(***************************************************************************)
bufferToIntegral(data, st, width, LE) ==
    LET r == read(data, st, width)
    IN  IF r.st.fail THEN [st |-> r.st, opt |-> None]
        ELSE [st |-> r.st,
              opt |-> Some(IF LE THEN leToNative(r.bytes) ELSE beToNative(r.bytes))]

\* integralToBuffer<T, LE>: converts to the requested order and writes the memory.
integralToBuffer(o, num, LE) ==
    ostream_write(o, IF LE THEN nativeToLe(num) ELSE nativeToBe(num))

(***************************************************************************)
(* The same on a host of either byte order, as getEndianess() decides at   *)
(* compile time.  An integer is given as its bytes, least significant      *)
(* first; its memory on a big-endian host holds them in reverse.           *)
(***************************************************************************)
Hosts == {"little", "big"}

InMemory(host, value) == IF host = "little" THEN value ELSE Reverse(value)

leToNativeOn(host, value) == IF host = "little" THEN value ELSE byteswap(value)

beToNativeOn(host, value) == IF host = "big" THEN value ELSE byteswap(value)

\* bufferToIntegral<T, LE> once the bytes are read into the integer's memory.
bufferToIntegralOn(host, bytes, LE) ==
    IF LE THEN leToNativeOn(host, InMemory(host, bytes))
    ELSE beToNativeOn(host, InMemory(host, bytes))

\* integralToBuffer<T, LE>: the bytes of the converted integer's memory.
integralToBufferOn(host, num, LE) ==
    InMemory(host, IF LE THEN leToNativeOn(host, num) ELSE beToNativeOn(host, num))

(***************************************************************************)
(* bufferToUint64 and bufferToUint64BE (binary.cpp).  Eight bytes are read *)
(* into tmp, an array of four: the bytes past the fourth are stored, and   *)
(* read again, outside the array, which is undefined behaviour (ub); a     *)
(* build that survives it finds there the bytes just stored.  The value    *)
(* put together from the eight bytes is cast to uint32_t before it is      *)
(* returned: the four low-order bytes remain, the four high-order ones are *)
(* zero.  The number is given as its bytes, least significant first.       *)
(***************************************************************************)
Uint64Of(r, low, ub) ==
    IF r.st.fail THEN Throw(r.st)
    ELSE IF ub = "crash" THEN Crash(r.st)
    ELSE Ok(r.st, Some(low \o <<0, 0, 0, 0>>))

bufferToUint64(data, st, ub) ==
    Uint64Of(read(data, st, 8), SubSeq(read(data, st, 8).bytes, 1, 4), ub)

bufferToUint64BE(data, st, ub) ==
    Uint64Of(read(data, st, 8), Reverse(SubSeq(read(data, st, 8).bytes, 5, 8)), ub)

(***************************************************************************)
(* iconv, as convert() drives it (encoding.hpp).  Utf16ToUtf8 and          *)
(* Utf8ToUtf16 give the converted text, or the empty optional for input    *)
(* that is invalid in the source encoding (a lone surrogate, a stray or    *)
(* missing continuation byte, an overlong form).                           *)
(***************************************************************************)
IsHighSurrogate(u) == u >= 55296 /\ u <= 56319
IsLowSurrogate(u) == u >= 56320 /\ u <= 57343

\* The UTF-8 bytes of a code point.
Utf8Of(cp) ==
    IF cp < 128 THEN <<cp>>
    ELSE IF cp < 2048 THEN <<192 + (cp \div 64), 128 + (cp % 64)>>
    ELSE IF cp < 65536
         THEN <<224 + (cp \div 4096), 128 + ((cp \div 64) % 64), 128 + (cp % 64)>>
         ELSE <<240 + (cp \div 262144), 128 + ((cp \div 4096) % 64),
                128 + ((cp \div 64) % 64), 128 + (cp % 64)>>

\* The UTF-16 code units of a code point.
Utf16Of(cp) ==
    IF cp < 65536 THEN <<cp>>
    ELSE <<55296 + ((cp - 65536) \div 1024), 56320 + ((cp - 65536) % 1024)>>

(***************************************************************************)
(* The two conversions, character by character for a short run, and for a  *)
(* long text by halves cut between two characters: the text is valid       *)
(* exactly when both halves are, and its conversion is theirs joined.      *)
(***************************************************************************)
RunLen == 8

both(l, r) == IF l.has_value /\ r.has_value THEN Some(l.value \o r.value) ELSE None

RECURSIVE Utf16ToUtf8Run(_)
Utf16ToUtf8Run(units) ==
    IF units = <<>> THEN Some(<<>>)
    ELSE LET u == Head(units)
         IN  IF IsLowSurrogate(u) THEN None
             ELSE IF IsHighSurrogate(u)
             THEN IF Len(units) < 2 \/ ~IsLowSurrogate(units[2]) THEN None
                  ELSE LET rest == Utf16ToUtf8Run(SubSeq(units, 3, Len(units)))
                           cp == 65536 + (u - 55296) * 1024 + (units[2] - 56320)
                       IN  IF rest.has_value THEN Some(Utf8Of(cp) \o rest.value)
                           ELSE None
             ELSE LET rest == Utf16ToUtf8Run(Tail(units))
                  IN  IF rest.has_value THEN Some(Utf8Of(u) \o rest.value) ELSE None

RECURSIVE Utf16ToUtf8(_)
Utf16ToUtf8(units) ==
    IF Len(units) <= RunLen THEN Utf16ToUtf8Run(units)
    ELSE LET m == Len(units) \div 2
             \* never between a high surrogate and the low one that follows it
             cut == IF IsHighSurrogate(units[m]) /\ IsLowSurrogate(units[m + 1])
                    THEN m - 1 ELSE m
         IN  both(Utf16ToUtf8(SubSeq(units, 1, cut)),
                  Utf16ToUtf8(SubSeq(units, cut + 1, Len(units))))

IsCont(b) == b >= 128 /\ b <= 191

RECURSIVE Utf8ToUtf16Run(_)
Utf8ToUtf16Run(bytes) ==
    IF bytes = <<>> THEN Some(<<>>)
    ELSE LET b == Head(bytes)
             n == IF b < 128 THEN 1
                  ELSE IF b >= 194 /\ b <= 223 THEN 2
                  ELSE IF b >= 224 /\ b <= 239 THEN 3
                  ELSE IF b >= 240 /\ b <= 244 THEN 4
                  ELSE 0
         IN  IF n = 0 \/ Len(bytes) < n THEN None
             ELSE IF \E i \in 2..n : ~IsCont(bytes[i]) THEN None
             ELSE LET cp == IF n = 1 THEN b
                            ELSE IF n = 2 THEN (b - 192) * 64 + (bytes[2] - 128)
                            ELSE IF n = 3
                            THEN (b - 224) * 4096 + (bytes[2] - 128) * 64
                                 + (bytes[3] - 128)
                            ELSE (b - 240) * 262144 + (bytes[2] - 128) * 4096
                                 + (bytes[3] - 128) * 64 + (bytes[4] - 128)
                      rest == Utf8ToUtf16Run(SubSeq(bytes, n + 1, Len(bytes)))
                  IN  IF (n = 3 /\ (cp < 2048 \/ (cp >= 55296 /\ cp <= 57343)))
                         \/ (n = 4 /\ (cp < 65536 \/ cp > 1114111))
                      THEN None
                      ELSE IF rest.has_value THEN Some(Utf16Of(cp) \o rest.value)
                      ELSE None

RECURSIVE Utf8ToUtf16(_)
Utf8ToUtf16(bytes) ==
    IF Len(bytes) <= RunLen THEN Utf8ToUtf16Run(bytes)
    ELSE LET m == Len(bytes) \div 2
             \* the next byte after the middle that begins a character
             leads == {j \in (m + 1)..(m + 4) : ~IsCont(bytes[j])}
             cut == CHOOSE j \in leads : \A k \in leads : j <= k
         IN  IF leads = {} THEN None
             ELSE both(Utf8ToUtf16(SubSeq(bytes, 1, cut - 1)),
                       Utf8ToUtf16(SubSeq(bytes, cut, Len(bytes))))

\* The size of convert()'s output array.
ChunkBytes == 512

(***************************************************************************)
(* convert<target, source>(begin, end, conv).  The loop runs while input   *)
(* is left; iconv is given the 512-byte array, and any return of -1 ends   *)
(* the conversion with the empty optional: invalid input, and also E2BIG,  *)
(* iconv's answer when the array filled up before the input ran out.  So   *)
(* the call succeeds exactly when the input is valid and its whole         *)
(* converted form fits the array.  toUtf8 tells the direction of conv.     *)
(***************************************************************************)
fits(out, unitBytes) ==
    IF ~out.has_value THEN None
    ELSE IF unitBytes * Len(out.value) > ChunkBytes THEN None
    ELSE out

convert(source, toUtf8) ==
    IF source = <<>> THEN Some(<<>>)
    ELSE IF toUtf8 THEN fits(Utf16ToUtf8(source), 1)
    ELSE fits(Utf8ToUtf16(source), 2)

(***************************************************************************)
(* common.hpp.                                                             *)
(***************************************************************************)
\* A check of the low byte of the code unit alone.
check_symLowByte(data, st, sym) ==
    LET r == read(data, st, 2)
    IN  IF r.st.fail THEN Throw(r.st)
        ELSE IF leToNative(r.bytes)[1] # sym THEN Throw(r.st)
        ELSE Ok(r.st, sym)

\* check_sym(target, sym): reads one code unit and compares all 16 bits of it.
check_sym(data, st, sym) ==
    LET r == read(data, st, 2)
    IN  IF r.st.fail THEN Throw(r.st)
        ELSE IF leToNative(r.bytes) # <<sym, 0>> THEN Throw(r.st)
        ELSE Ok(r.st, sym)

\* Results of the calls that write: the stream after the call and what it returned.
Wrote(o, ret) == [kind |-> "ok", o |-> o, ret |-> ret]
WThrow(o) == [kind |-> "throw", o |-> o, ret |-> 0]
WCrash(o) == [kind |-> "crash", o |-> o, ret |-> 0]

\* write_sym(target, sym): writes the code unit, throws when the stream failed.
write_sym(o, sym) ==
    LET o2 == ostream_write(o, leToNative(<<sym, 0>>))
    IN  IF o2.fail THEN WThrow(o2) ELSE Wrote(o2, 0)

(***************************************************************************)
(* binary.cpp.  The parser calls these without a conversion descriptor     *)
(* (conv = nullptr).                                                       *)
(***************************************************************************)

(***************************************************************************)
(* bufferToString(buffer, size, conv).  The source string is built with    *)
(* (size / 2) - 1 code units, which in size_t wraps around for size < 2    *)
(* and makes the constructor throw std::length_error.  Its storage holds   *)
(* those units and the terminator: 2 * (size / 2) bytes.  read stores size *)
(* bytes there: one byte past the storage when size is odd, which is       *)
(* undefined behaviour (ub).  The code unit in the terminator's place must *)
(* be 0; the units before it are converted to UTF-8.                       *)
(***************************************************************************)
bufferToString(data, st, size, ub) ==
    IF size \div 2 = 0 THEN Throw(st)
    ELSE LET n == (size \div 2) - 1
             r == read(data, st, size)
         IN  IF Len(r.bytes) > 2 * (n + 1) /\ ub = "crash" THEN Crash(r.st)
             ELSE IF r.st.fail THEN Throw(r.st)
             ELSE IF r.bytes[2 * n + 1] # 0 \/ r.bytes[2 * n + 2] # 0
                  THEN Ok(r.st, None)
             ELSE Ok(r.st, convert(UnitsOf(SubSeq(r.bytes, 1, 2 * n)), TRUE))

(***************************************************************************)
(* stringToBuffer(buffer, source, conv).  The code returns false (0) when  *)
(* the conversion HAS a value, and otherwise takes value() of the empty    *)
(* optional, which throws std::bad_optional_access.  The write of the      *)
(* converted units and their terminator, which follows in the source, is   *)
(* therefore never reached.                                                *)
(***************************************************************************)
stringToBuffer(o, source) ==
    LET tmp == convert(source, FALSE)
    IN  IF tmp.has_value THEN Wrote(o, 0)
        ELSE WThrow(o)

(***************************************************************************)
(* bufferToStrings(buffer, size, conv).  tmp is resized to size - 1 code   *)
(* units (std::length_error for size = 0), zero-filled, and read stores    *)
(* size bytes over its beginning.  The loop splits tmp at its zero units;  *)
(* it ends normally only with found = tmp.size() + 1, and returns the      *)
(* empty optional when find reports no further zero.  A non-empty piece is *)
(* handed to iconv with the null descriptor the parser passed: undefined   *)
(* behaviour (ub); a build that survives it converts the piece.            *)
(***************************************************************************)
npos == -1

\* std::basic_string::find(ch, pos): the first index >= pos holding ch.
find(str, ch, pos) ==
    LET hits == {i \in pos..(Len(str) - 1) : str[i + 1] = ch}
    IN  IF hits = {} THEN npos
        ELSE CHOOSE i \in hits : \A j \in hits : i <= j

RECURSIVE bufferToStringsLoop(_, _, _, _, _)
\* The loop after iconv has answered for the piece that ends at f.
bufferToStringsNext(tmp, f, tmp2, result, ub) ==
    IF ~tmp2.has_value THEN [kind |-> "ok", opt |-> None]
    ELSE bufferToStringsLoop(tmp, f + 1, f + 1, Append(result, tmp2.value), ub)

\* The loop from the piece that ends at the zero unit find reported.
bufferToStringsPiece(tmp, current, f, result, ub) ==
    IF f = npos THEN [kind |-> "ok", opt |-> None]
    ELSE IF f > current /\ ub = "crash" THEN [kind |-> "crash", opt |-> None]
    ELSE bufferToStringsNext(tmp, f, convert(SubSeq(tmp, current + 1, f), TRUE),
                             result, ub)

bufferToStringsLoop(tmp, current, found, result, ub) ==
    IF found = Len(tmp) + 1 THEN [kind |-> "ok", opt |-> Some(result)]
    ELSE bufferToStringsPiece(tmp, current, find(tmp, 0, current), result, ub)

bufferToStringsOf(st, res) ==
    IF res.kind = "crash" THEN Crash(st) ELSE Ok(st, res.opt)

bufferToStrings(data, st, size, ub) ==
    IF size = 0 THEN Throw(st)
    ELSE LET r == read(data, st, size)
             mem == r.bytes \o Repeat(0, 2 * (size - 1) + 2 - Len(r.bytes))
             tmp == SubSeq(UnitsOf(mem), 1, size - 1)
         IN  IF r.st.fail THEN Throw(r.st)
             ELSE bufferToStringsOf(r.st, bufferToStringsLoop(tmp, 0, 0, <<>>, ub))

\* StringsToBuffer(buffer, data, conv): stringToBuffer for each element, sizes added.
RECURSIVE StringsToBuffer(_, _)
StringsToBufferRest(first, rest) ==
    IF rest.kind # "ok" THEN rest ELSE Wrote(rest.o, first.ret + rest.ret)

StringsToBufferFrom(first, strs) ==
    IF first.kind # "ok" THEN first
    ELSE StringsToBufferRest(first, StringsToBuffer(first.o, Tail(strs)))

StringsToBuffer(o, strs) ==
    IF strs = <<>> THEN Wrote(o, 0)
    ELSE StringsToBufferFrom(stringToBuffer(o, Head(strs)), strs)

\* bufferToVector(buffer, size): size raw bytes.
bufferToVector(data, st, size) ==
    LET r == read(data, st, size)
    IN  IF r.st.fail THEN Throw(r.st) ELSE Ok(r.st, Some(r.bytes))

\* vectorToBuffer(buffer, data): the raw bytes; false when the stream failed.
vectorToBuffer(o, bytes) ==
    LET o2 == ostream_write(o, bytes)
    IN  Wrote(o2, IF o2.fail THEN 0 ELSE 1)

(***************************************************************************)
(* parser.hpp: PolicyRegType and PolicyData.                               *)
(***************************************************************************)
REG_NONE == 0
REG_SZ == 1
REG_EXPAND_SZ == 2
REG_BINARY == 3
REG_DWORD_LITTLE_ENDIAN == 4
REG_DWORD_BIG_ENDIAN == 5
REG_LINK == 6
REG_MULTI_SZ == 7
REG_RESOURCE_LIST == 8
REG_FULL_RESOURCE_DESCRIPTOR == 9
REG_RESOURCE_REQUIREMENTS_LIST == 10
REG_QWORD_LITTLE_ENDIAN == 11
REG_QWORD_BIG_ENDIAN == 12

\* PolicyData: the variant's active alternative and its contents (a list of
\* strings in `list', the contents of every other alternative in `val').
PolicyData(tag, val) ==
    [tag |-> tag,
     val |-> IF tag = "strings" THEN <<>> ELSE val,
     list |-> IF tag = "strings" THEN val ELSE <<>>]

\* std::get<T>(data), T being the active alternative.
get(pdata) == IF pdata.tag = "strings" THEN pdata.list ELSE pdata.val

\* PolicyData{}: the variant's first alternative, an empty std::string.
DefaultPolicyData == PolicyData("string", <<>>)

PolicyInstruction(key, value, type, data) ==
    [key |-> key, value |-> value, type |-> type, data |-> data]

\* The value of a 32-bit integer whose top digit is below 128.
ToNat(digits) ==
    digits[1] + 256 * digits[2] + 65536 * digits[3] + 16777216 * digits[4]

\* The 32-bit integer of a value below 2^31.
ToUint32(n) ==
    <<n % 256, (n \div 256) % 256, (n \div 65536) % 256, (n \div 16777216) % 256>>

(***************************************************************************)
(* parser.cpp: the reader.                                                 *)
(***************************************************************************)
valid_header == <<80, 82, 101, 103, 1, 0, 0, 0>>

isValueCharacter(sym) == sym >= 32 /\ sym <= 126

\* parseHeader: throws only when BOTH the signature and the version differ.
parseHeader(data, st) ==
    LET r == read(data, st, 8)
        signature == SubSeq(r.bytes, 1, 4)
        version == SubSeq(r.bytes, 5, 8)
        normal_signature == SubSeq(valid_header, 1, 4)
        normal_version == SubSeq(valid_header, 5, 8)
    IN  IF r.st.fail THEN Throw(r.st)
        ELSE IF signature # normal_signature /\ version # normal_version
             THEN Throw(r.st)
        ELSE Ok(r.st, TRUE)

(***************************************************************************)
(* getSize and getType take a uint32_t out of bufferToIntegral's optional. *)
(* An empty optional holds no number to go on with: the model ends the     *)
(* call there.  (Whatever number the call went on with instead, the        *)
(* stream has failed, and the check_sym that follows every use throws.)    *)
(***************************************************************************)
getSize(data, st) ==
    LET r == bufferToIntegral(data, st, 4, TRUE)
    IN  IF ~r.opt.has_value THEN Throw(r.st) ELSE Ok(r.st, r.opt.value)

\* getType as a bare cast of the number read (a mutation of getType).
getTypeUnchecked(data, st) ==
    LET r == bufferToIntegral(data, st, 4, TRUE)
    IN  IF ~r.opt.has_value THEN Throw(r.st) ELSE Ok(r.st, ToNat(r.opt.value))

\* getType: a number that names no type 1..12 gives `return {}`, which is REG_NONE.
getType(data, st) ==
    LET r == bufferToIntegral(data, st, 4, TRUE)
        num == r.opt.value
    IN  IF ~r.opt.has_value THEN Throw(r.st)
        ELSE IF num[2] = 0 /\ num[3] = 0 /\ num[4] = 0
                /\ num[1] >= REG_SZ /\ num[1] <= REG_QWORD_BIG_ENDIAN
             THEN Ok(r.st, num[1])
        ELSE Ok(r.st, REG_NONE)

\* getKey without its test for an empty segment (a mutation of getKeyLoop).
RECURSIVE getKeyLoopEmptySegment(_, _, _)
getKeyLoopEmptySegment(data, st, key) ==
    LET r == read(data, st, 2)
        d == ToNat(leToNative(r.bytes) \o <<0, 0>>)
    IN  IF r.st.fail THEN Throw(r.st)
        ELSE IF d >= 32 /\ d <= 126 /\ d # 92
             THEN getKeyLoopEmptySegment(data, r.st, Append(key, d))
        ELSE IF d # 0 /\ d # 92 THEN Throw(r.st)
        ELSE Ok(seekg(data, r.st, -2), key)

\* getKey: one segment; the unit that ended it is put back with seekg(-2).
RECURSIVE getKeyLoop(_, _, _)
getKeyLoop(data, st, key) ==
    LET r == read(data, st, 2)
        d == ToNat(leToNative(r.bytes) \o <<0, 0>>)
    IN  IF r.st.fail THEN Throw(r.st)
        ELSE IF d >= 32 /\ d <= 126 /\ d # 92
             THEN getKeyLoop(data, r.st, Append(key, d))
        ELSE IF key = <<>> \/ (d # 0 /\ d # 92) THEN Throw(r.st)
        ELSE Ok(seekg(data, r.st, -2), key)

getKey(data, st) == getKeyLoop(data, st, <<>>)

\* getKeypath: segments joined by '\', up to the zero unit.
RECURSIVE getKeypathLoop(_, _, _)
\* The loop after getKey has returned k.
getKeypathNext(data, k, keyPath) ==
    LET r == read(data, k.st, 2)
        sym == ToNat(leToNative(r.bytes) \o <<0, 0>>)
    IN  IF k.kind # "ok" THEN k
        ELSE IF r.st.fail THEN Throw(r.st)
        ELSE IF sym = 0 THEN Ok(r.st, keyPath \o k.val)
        ELSE IF sym # 92 THEN Throw(r.st)
        ELSE getKeypathLoop(data, r.st, (keyPath \o k.val) \o <<92>>)

getKeypathLoop(data, st, keyPath) == getKeypathNext(data, getKey(data, st), keyPath)

getKeypath(data, st) == getKeypathLoop(data, st, <<>>)

\* The longest value getValue takes.
MaxValueLength == 259

\* getValue with the length test one character later (a mutation of getValue).
getValueLonger(data, st) ==
    LET first == read(data, st, 2)
        \* the code units the stream holds in full from st.pos on
        avail == (Len(data) - st.pos) \div 2
        unit(i) == ToNat(leToNative(<<data[st.pos + 2 * i - 1], data[st.pos + 2 * i]>>)
                         \o <<0, 0>>)
        stops == {i \in 1..avail : ~isValueCharacter(unit(i))}
        \* the value characters read before another unit or the end
        run == IF stops = {} THEN avail
               ELSE (CHOOSE i \in stops : \A j \in stops : i <= j) - 1
        after(n) == [st EXCEPT !.pos = st.pos + 2 * n]
    IN  IF first.st.fail THEN Throw(first.st)
        ELSE IF run > MaxValueLength + 1 THEN Throw(after(MaxValueLength + 2))
        ELSE IF run = avail THEN Throw(read(data, after(run), 2).st)
        ELSE IF unit(run + 1) # 0 \/ run = 0 THEN Ok(after(run + 1), <<>>)
        ELSE Ok(after(run + 1), [i \in 1..run |-> unit(i)])

(***************************************************************************)
(* getValue: value characters up to the first unit that is none.  The      *)
(* 260th value character throws.  Afterwards `return {}` (the empty        *)
(* string, no exception) when the ending unit is not zero or when nothing  *)
(* was read.  The loop reads one unit per turn; the model counts the run   *)
(* of value characters the loop would read and goes to where it ends.      *)
(***************************************************************************)
getValue(data, st) ==
    LET first == read(data, st, 2)
        \* the code units the stream holds in full from st.pos on
        avail == (Len(data) - st.pos) \div 2
        unit(i) == ToNat(leToNative(<<data[st.pos + 2 * i - 1], data[st.pos + 2 * i]>>)
                         \o <<0, 0>>)
        stops == {i \in 1..avail : ~isValueCharacter(unit(i))}
        \* the value characters read before another unit or the end
        run == IF stops = {} THEN avail
               ELSE (CHOOSE i \in stops : \A j \in stops : i <= j) - 1
        after(n) == [st EXCEPT !.pos = st.pos + 2 * n]
    IN  IF first.st.fail THEN Throw(first.st)
        ELSE IF run > MaxValueLength THEN Throw(after(MaxValueLength + 1))
        ELSE IF run = avail THEN Throw(read(data, after(run), 2).st)
        ELSE IF unit(run + 1) # 0 \/ run = 0 THEN Ok(after(run + 1), <<>>)
        ELSE Ok(after(run + 1), [i \in 1..run |-> unit(i)])

(***************************************************************************)
(* getData: the payload by type.  size is used by the text, blob and list  *)
(* types only; the integer types read their own width.  An empty optional  *)
(* from a primitive holds no payload: the model ends the call there.       *)
(***************************************************************************)
getDataOf(r, tag) ==
    IF r.kind # "ok" THEN r
    ELSE IF ~r.val.has_value THEN Throw(r.st)
    ELSE Ok(r.st, PolicyData(tag, r.val.value))

getDataIntegral(data, st, width, LE, tag) ==
    LET r == bufferToIntegral(data, st, width, LE)
    IN  getDataOf(Ok(r.st, r.opt), tag)

\* getData taking REG_NONE as the default case does (a mutation of getData).
getDataNoneDefault(data, st, type, size, ub) ==
    CASE type = REG_NONE -> Ok(st, DefaultPolicyData)
      [] type \in {REG_SZ, REG_EXPAND_SZ, REG_LINK} ->
            getDataOf(bufferToString(data, st, size, ub), "string")
      [] type = REG_BINARY ->
            getDataOf(bufferToVector(data, st, size), "bytes")
      [] type = REG_DWORD_LITTLE_ENDIAN -> getDataIntegral(data, st, 4, TRUE, "u32")
      [] type = REG_DWORD_BIG_ENDIAN -> getDataIntegral(data, st, 4, FALSE, "u32")
      [] type \in {REG_MULTI_SZ, REG_RESOURCE_LIST, REG_FULL_RESOURCE_DESCRIPTOR,
                   REG_RESOURCE_REQUIREMENTS_LIST} ->
            getDataOf(bufferToStrings(data, st, size, ub), "strings")
      [] type = REG_QWORD_LITTLE_ENDIAN -> getDataIntegral(data, st, 8, TRUE, "u64")
      [] type = REG_QWORD_BIG_ENDIAN -> getDataIntegral(data, st, 8, FALSE, "u64")
      [] OTHER -> Ok(st, DefaultPolicyData)

getData(data, st, type, size, ub) ==
    CASE type = REG_NONE -> Throw(st)
      [] type \in {REG_SZ, REG_EXPAND_SZ, REG_LINK} ->
            getDataOf(bufferToString(data, st, size, ub), "string")
      [] type = REG_BINARY ->
            getDataOf(bufferToVector(data, st, size), "bytes")
      [] type = REG_DWORD_LITTLE_ENDIAN -> getDataIntegral(data, st, 4, TRUE, "u32")
      [] type = REG_DWORD_BIG_ENDIAN -> getDataIntegral(data, st, 4, FALSE, "u32")
      [] type \in {REG_MULTI_SZ, REG_RESOURCE_LIST, REG_FULL_RESOURCE_DESCRIPTOR,
                   REG_RESOURCE_REQUIREMENTS_LIST} ->
            getDataOf(bufferToStrings(data, st, size, ub), "strings")
      [] type = REG_QWORD_LITTLE_ENDIAN -> getDataIntegral(data, st, 8, TRUE, "u64")
      [] type = REG_QWORD_BIG_ENDIAN -> getDataIntegral(data, st, 8, FALSE, "u64")
      [] OTHER -> Ok(st, DefaultPolicyData)

(***************************************************************************)
(* getInstruction: '[' key ';' value ';' type ';' size ';' data ']'.  The  *)
(* instruction being read is the stream, how the last call ended, and the  *)
(* fields read so far; after a call that threw, no further call is made.   *)
(***************************************************************************)
Reading(st) ==
    [kind |-> "ok", st |-> st, sym |-> 0, key |-> <<>>, value |-> <<>>,
     type |-> REG_NONE, dataSize |-> <<0, 0, 0, 0>>, data |-> DefaultPolicyData]

Got(a, field, r) ==
    [a EXCEPT !.kind = r.kind, !.st = r.st,
              ![field] = IF r.kind = "ok" THEN r.val ELSE @]

readSym(data, a, sym) ==
    IF a.kind # "ok" THEN a ELSE Got(a, "sym", check_sym(data, a.st, sym))

readKey(data, a) ==
    IF a.kind # "ok" THEN a ELSE Got(a, "key", getKeypath(data, a.st))

readValue(data, a) ==
    IF a.kind # "ok" THEN a ELSE Got(a, "value", getValue(data, a.st))

readType(data, a) ==
    IF a.kind # "ok" THEN a ELSE Got(a, "type", getType(data, a.st))

readSize(data, a) ==
    IF a.kind # "ok" THEN a ELSE Got(a, "dataSize", getSize(data, a.st))

readData(data, a, ub) ==
    IF a.kind # "ok" THEN a
    ELSE Got(a, "data", getData(data, a.st, a.type, ToNat(a.dataSize), ub))

instructionOf(a) ==
    IF a.kind # "ok" THEN [kind |-> a.kind, st |-> a.st, val |-> <<>>]
    ELSE Ok(a.st, PolicyInstruction(a.key, a.value, a.type, a.data))

getInstruction(data, st, ub) ==
    instructionOf(
      readSym(data,
        readData(data,
          readSym(data,
            readSize(data,
              readSym(data,
                readType(data,
                  readSym(data,
                    readValue(data,
                      readSym(data,
                        readKey(data,
                          readSym(data, Reading(st), 91)),
                        59)),
                    59)),
                59)),
            59),
          ub),
        93))

\* getInstruction up to the call of getData.
beforeData(data, st) ==
    readSym(data,
      readSize(data,
        readSym(data,
          readType(data,
            readSym(data,
              readValue(data,
                readSym(data,
                  readKey(data,
                    readSym(data, Reading(st), 91)),
                  59)),
              59)),
          59)),
      59)

\* The descriptors a call of getInstruction opens: getData calls bufferToString
\* without a descriptor, and bufferToString then opens one (binary.cpp, `if
\* (conv == nullptr) conv = iconv_open(...)`) that nothing closes.  a is the
\* call as it stands before getData.
iconvOpenedReading(a) ==
    IF a.kind = "ok" /\ a.type \in {REG_SZ, REG_EXPAND_SZ, REG_LINK} THEN 1 ELSE 0

(***************************************************************************)
(* parser.cpp: the writer.                                                 *)
(***************************************************************************)
\* std::get<T>(data): throws std::bad_variant_access when T is not active.
holds(pdata, tag) == pdata.tag = tag

(***************************************************************************)
(* getDataStream(data, type): the payload written to a fresh stringstream, *)
(* or the empty optional for REG_NONE and unknown types.  The result is    *)
(* [kind, opt], opt holding the stream's bytes.                            *)
(***************************************************************************)
NewOStream == [bytes |-> <<>>, fail |-> FALSE]

getDataStreamOf(w) ==
    IF w.kind # "ok" THEN [kind |-> w.kind, opt |-> None]
    ELSE [kind |-> "ok", opt |-> Some(w.o.bytes)]

getDataStream(pdata, type) ==
    LET stream == NewOStream
        bad == [kind |-> "throw", opt |-> None]
    IN  CASE type \in {REG_SZ, REG_EXPAND_SZ, REG_LINK} ->
                IF ~holds(pdata, "string") THEN bad
                ELSE getDataStreamOf(stringToBuffer(stream, get(pdata)))
          [] type = REG_BINARY ->
                IF ~holds(pdata, "bytes") THEN bad
                ELSE getDataStreamOf(vectorToBuffer(stream, get(pdata)))
          [] type = REG_DWORD_LITTLE_ENDIAN ->
                IF ~holds(pdata, "u32") THEN bad
                ELSE getDataStreamOf(Wrote(integralToBuffer(stream, get(pdata), TRUE), 1))
          [] type = REG_DWORD_BIG_ENDIAN ->
                IF ~holds(pdata, "u32") THEN bad
                ELSE getDataStreamOf(Wrote(integralToBuffer(stream, get(pdata), FALSE), 1))
          [] type \in {REG_MULTI_SZ, REG_RESOURCE_LIST, REG_FULL_RESOURCE_DESCRIPTOR,
                       REG_RESOURCE_REQUIREMENTS_LIST} ->
                IF ~holds(pdata, "strings") THEN bad
                ELSE getDataStreamOf(StringsToBuffer(stream, get(pdata)))
          [] type = REG_QWORD_LITTLE_ENDIAN ->
                IF ~holds(pdata, "u64") THEN bad
                ELSE getDataStreamOf(Wrote(integralToBuffer(stream, get(pdata), TRUE), 1))
          [] type = REG_QWORD_BIG_ENDIAN ->
                IF ~holds(pdata, "u64") THEN bad
                ELSE getDataStreamOf(Wrote(integralToBuffer(stream, get(pdata), FALSE), 1))
          [] OTHER -> [kind |-> "ok", opt |-> None]

\* A header of the signature alone.
writeHeaderSignatureOnly(o) == ostream_write(o, SubSeq(valid_header, 1, 4))

\* writeHeader: the eight bytes, the stream's state not looked at.
writeHeader(o) == ostream_write(o, valid_header)

(***************************************************************************)
(* writeInstruction.  The size written is the data stream's tellp().       *)
(* dataStream is dereferenced without a look at has_value(): undefined     *)
(* behaviour when getDataStream returned the empty optional (ub); a build  *)
(* that survives it is taken to find an empty stream there.  After a call  *)
(* that threw, no further call is made.                                    *)
(***************************************************************************)
putSym(w, sym) == IF w.kind # "ok" THEN w ELSE write_sym(w.o, sym)

putString(w, source) == IF w.kind # "ok" THEN w ELSE stringToBuffer(w.o, source)

putUint32(w, num) ==
    IF w.kind # "ok" THEN w ELSE Wrote(integralToBuffer(w.o, num, TRUE), 0)

\* stream << dataStream->str(); check_stream(stream);
putStr(w, bytes) ==
    IF w.kind # "ok" THEN w
    ELSE IF ostream_write(w.o, bytes).fail THEN WThrow(ostream_write(w.o, bytes))
    ELSE Wrote(ostream_write(w.o, bytes), 0)

\* From the size on, the data stream holding payload.
putPayload(w, payload) ==
    putSym(putStr(putSym(putUint32(w, ToUint32(Len(payload))), 59), payload), 93)

putData(w, dataStream, ub) ==
    IF w.kind # "ok" THEN w
    ELSE IF dataStream.kind = "throw" THEN WThrow(w.o)
    ELSE IF dataStream.opt.has_value THEN putPayload(w, dataStream.opt.value)
    ELSE IF ub = "crash" THEN WCrash(w.o)
    ELSE putPayload(w, <<>>)

writeInstruction(o, instruction, ub) ==
    putData(
      putSym(
        putUint32(
          putSym(
            putString(
              putSym(
                putString(
                  putSym(Wrote(o, 0), 91),
                  instruction.key),
                59),
              instruction.value),
            59),
          ToUint32(instruction.type)),
        59),
      getDataStream(instruction.data, instruction.type), ub)

\* The descriptors a call of writeInstruction opens: every call of
\* stringToBuffer it reaches is one without a descriptor and opens one that
\* nothing closes; a call whose conversion fails throws and ends the write.
RECURSIVE iconvOpenedStrings(_)
iconvOpenedStrings(strs) ==
    IF strs = <<>> THEN 0
    ELSE IF ~convert(Head(strs), FALSE).has_value THEN 1
    ELSE 1 + iconvOpenedStrings(Tail(strs))

iconvOpenedData(instruction) ==
    CASE instruction.type \in {REG_SZ, REG_EXPAND_SZ, REG_LINK}
            /\ holds(instruction.data, "string") -> 1
      [] instruction.type \in {REG_MULTI_SZ, REG_RESOURCE_LIST,
                               REG_FULL_RESOURCE_DESCRIPTOR,
                               REG_RESOURCE_REQUIREMENTS_LIST}
            /\ holds(instruction.data, "strings") ->
            iconvOpenedStrings(get(instruction.data))
      [] OTHER -> 0

iconvOpenedWriting(o, instruction) ==
    IF o.fail THEN 0
    ELSE IF ~convert(instruction.key, FALSE).has_value THEN 1
    ELSE IF ~convert(instruction.value, FALSE).has_value THEN 2
    ELSE 2 + iconvOpenedData(instruction)

(***************************************************************************)
(* The inputs.  A wire layout is a header, a sequence of records given     *)
(* field by field, and a number of bytes cut off the end; the stream holds *)
(* its bytes.  Key and value are the code units before the terminator;     *)
(* vterm is the unit that ends the value (zero in a well-formed record).   *)
(***************************************************************************)
MaxRecs == 2
MaxInstr == 2

LBR == <<91, 0>>
RBR == <<93, 0>>
SEP == <<59, 0>>

Rec(key, value, type, size, data) ==
    [lbr |-> LBR, key |-> key, value |-> value, vterm |-> <<0>>,
     seps |-> <<SEP, SEP, SEP, SEP>>, type |-> type, size |-> size,
     data |-> data, rbr |-> RBR]

RecBytes(r) ==
    r.lbr \o BytesOf(r.key \o <<0>>) \o r.seps[1]
    \o BytesOf(r.value \o r.vterm) \o r.seps[2]
    \o r.type \o r.seps[3] \o r.size \o r.seps[4] \o r.data \o r.rbr

RECURSIVE RecsBytes(_)
RecsBytes(recs) ==
    IF recs = <<>> THEN <<>> ELSE RecBytes(Head(recs)) \o RecsBytes(Tail(recs))

Wire(hdr, recs, cut) == [hdr |-> hdr, recs |-> recs, cut |-> cut]

WireBytes(w) ==
    LET all == w.hdr \o RecsBytes(w.recs)
    IN  SubSeq(all, 1, Len(all) - w.cut)

\* Well-formed records, one or more of each type.
GoodRec(t, data) == Rec(<<65>>, <<66>>, ToUint32(t), ToUint32(Len(data)), data)

GoodRecs ==
    { GoodRec(REG_SZ, <<88, 0, 0, 0>>),
      GoodRec(REG_SZ, <<0, 0>>),
      GoodRec(REG_EXPAND_SZ, <<31, 4, 0, 0>>),
      GoodRec(REG_LINK, <<88, 0, 89, 0, 0, 0>>),
      GoodRec(REG_BINARY, <<>>),
      GoodRec(REG_BINARY, <<7, 0, 255>>),
      GoodRec(REG_DWORD_LITTLE_ENDIAN, <<1, 0, 0, 0>>),
      GoodRec(REG_DWORD_BIG_ENDIAN, <<1, 2, 3, 4>>),
      GoodRec(REG_QWORD_LITTLE_ENDIAN, <<1, 0, 0, 0, 2, 0, 0, 128>>),
      GoodRec(REG_QWORD_BIG_ENDIAN, <<128, 2, 3, 4, 5, 6, 7, 8>>),
      GoodRec(REG_MULTI_SZ, <<97, 0, 0, 0, 98, 0, 0, 0, 0, 0>>),
      GoodRec(REG_MULTI_SZ, <<0, 0>>),
      Rec(<<65, 92, 66>>, <<>>, ToUint32(REG_SZ), ToUint32(4), <<88, 0, 0, 0>>) }

G1 == GoodRec(REG_SZ, <<88, 0, 0, 0>>)
G2 == GoodRec(REG_DWORD_LITTLE_ENDIAN, <<1, 0, 0, 0>>)

\* Every type field against every declared size and every payload.
TypeFields == {ToUint32(t) : t \in 0..13} \cup {<<1, 1, 0, 0>>, <<4, 0, 0, 1>>}

SizeFields == {ToUint32(n) : n \in {0, 1, 2, 3, 4, 5, 8, 10}} \cup {<<4, 0, 1, 0>>}

DataFields ==
    { <<>>, <<7>>, <<0, 0>>, <<88, 0>>, <<0, 0, 9>>, <<88, 0, 0, 0>>, <<1, 2, 3, 4>>,
      <<0, 216, 0, 0>>, <<0, 0, 0, 0>>, <<88, 0, 0, 0, 9>>,
      <<1, 0, 0, 0, 2, 0, 0, 128>>, <<97, 0, 0, 0, 98, 0, 0, 0, 0, 0>> }

PayloadRecs ==
    { Rec(<<65>>, <<66>>, t, sz, d) : t \in TypeFields, sz \in SizeFields, d \in DataFields }

\* Key fields.
KeyFields ==
    { <<65>>, <<65, 92, 66>>, <<65, 92, 66, 92, 67>>, <<32, 126>>, <<65, 59, 66>>,
      <<>>, <<92, 65>>, <<65, 92>>, <<65, 92, 92, 66>>, <<92>>,
      <<321>>, <<31>>, <<65, 127>>, <<65, 348, 66>>, <<65, 0, 66>>, <<65, 92, 31>> }

KeyRecs == { [G1 EXCEPT !.key = k] : k \in KeyFields }

\* Value fields, ended by a zero unit or by another unit that is no value character.
ValueFields ==
    { <<>>, <<66>>, <<66, 92, 67>>, <<32, 126>>,
      Repeat(66, MaxValueLength - 1), Repeat(66, MaxValueLength),
      Repeat(66, MaxValueLength + 1), Repeat(66, MaxValueLength + 2),
      <<31>>, <<127>>, <<66, 322>>, <<66, 1, 67>> }

ValueRecs ==
    { [g EXCEPT !.value = v, !.vterm = t] :
        g \in {G1, G2}, v \in ValueFields, t \in {<<0>>, <<1>>, <<256>>, <<127>>} }

\* Delimiters that differ from the expected code unit in the low or the high byte.
DelimRecs ==
    { [G1 EXCEPT !.lbr = d] : d \in {<<91, 1>>, <<92, 0>>, <<0, 91>>} }
    \cup { [G1 EXCEPT !.seps[i] = d] : i \in 1..4, d \in {<<59, 1>>, <<58, 0>>, <<0, 0>>} }
    \cup { [G1 EXCEPT !.rbr = d] : d \in {<<93, 1>>, <<91, 0>>, <<93, 255>>} }

\* Headers: the signature and the version, each right or wrong; short ones.
Headers ==
    { valid_header,
      <<80, 82, 101, 103, 2, 0, 0, 0>>, <<80, 82, 101, 103, 1, 0, 0, 1>>,
      <<80, 82, 101, 71, 1, 0, 0, 0>>, <<112, 82, 101, 103, 1, 0, 0, 0>>,
      <<80, 82, 101, 71, 2, 0, 0, 0>>, <<0, 0, 0, 0, 0, 0, 0, 0>>,
      <<80, 82, 101, 103, 1, 0, 0>>, <<80, 82, 101, 103>>, <<>> }

RECURSIVE SeqsUpTo(_, _)
SeqsUpTo(S, n) ==
    IF n = 0 THEN {<<>>}
    ELSE LET shorter == SeqsUpTo(S, n - 1)
         IN  shorter \cup { Append(q, x) : q \in shorter, x \in S }

FaultyRecs == KeyRecs \cup ValueRecs \cup DelimRecs

Wires ==
    { Wire(h, recs, 0) : h \in Headers, recs \in {<<>>, <<G1>>, <<G2>>} }
    \cup { Wire(valid_header, <<r>>, 0) : r \in PayloadRecs \cup FaultyRecs }
    \cup { Wire(valid_header, recs, 0) : recs \in SeqsUpTo(GoodRecs, MaxRecs) }
    \cup { Wire(valid_header, Append(recs, r), 0) :
             recs \in SeqsUpTo({G1, G2}, MaxRecs - 1) \ {<<>>}, r \in FaultyRecs }
    \cup { Wire(valid_header, <<G1, G2>>, c) :
             c \in 1..(Len(RecBytes(G1)) + Len(RecBytes(G2))) }
    \cup { Wire(valid_header, <<[G1 EXCEPT !.type = t]>>, c) :
             t \in {ToUint32(REG_NONE), ToUint32(REG_QWORD_BIG_ENDIAN + 1)},
             c \in 1..(Len(RecBytes(G1)) - 1) }
    \cup { Wire(valid_header, <<[r EXCEPT !.type = t]>>, 0) :
             t \in {ToUint32(REG_NONE), ToUint32(REG_QWORD_BIG_ENDIAN + 1)},
             r \in DelimRecs }

NoWire == Wire(<<>>, <<>>, 0)

(***************************************************************************)
(* The documents handed to write first: a body of up to MaxInstr           *)
(* instructions with a valid key, a value of at most 259 value characters, *)
(* a type 1..12 and data of the type's shape; and the document without a   *)
(* body.                                                                   *)
(***************************************************************************)
Instrs ==
    { PolicyInstruction(<<65>>, <<66>>, REG_SZ, PolicyData("string", <<88>>)),
      PolicyInstruction(<<65, 92, 66>>, <<>>, REG_SZ, PolicyData("string", <<>>)),
      PolicyInstruction(<<65>>, <<66>>, REG_EXPAND_SZ, PolicyData("string", <<208, 159>>)),
      PolicyInstruction(<<65>>, <<66>>, REG_LINK, PolicyData("string", <<88, 89>>)),
      PolicyInstruction(<<65>>, <<66>>, REG_BINARY, PolicyData("bytes", <<>>)),
      PolicyInstruction(<<65>>, <<66>>, REG_BINARY, PolicyData("bytes", <<7, 0, 255>>)),
      PolicyInstruction(<<65>>, <<66>>, REG_DWORD_LITTLE_ENDIAN,
                        PolicyData("u32", <<1, 0, 0, 0>>)),
      PolicyInstruction(<<65>>, <<66>>, REG_DWORD_BIG_ENDIAN,
                        PolicyData("u32", <<4, 3, 2, 1>>)),
      PolicyInstruction(<<65>>, <<66>>, REG_QWORD_LITTLE_ENDIAN,
                        PolicyData("u64", <<1, 0, 0, 0, 2, 0, 0, 128>>)),
      PolicyInstruction(<<65>>, <<66>>, REG_QWORD_BIG_ENDIAN,
                        PolicyData("u64", <<8, 7, 6, 5, 4, 3, 2, 128>>)),
      PolicyInstruction(<<65>>, <<66>>, REG_MULTI_SZ, PolicyData("strings", <<>>)),
      PolicyInstruction(<<65>>, <<66>>, REG_MULTI_SZ,
                        PolicyData("strings", <<<<97>>, <<98>>>>)),
      PolicyInstruction(<<65>>, <<66>>, REG_RESOURCE_LIST,
                        PolicyData("strings", <<<<97>>>>)),
      PolicyInstruction(<<65>>, Repeat(66, MaxValueLength), REG_SZ,
                        PolicyData("string", <<88>>)) }

PolicyFile(has_body, instructions) ==
    [has_body |-> has_body, instructions |-> instructions]

NoBody == PolicyFile(FALSE, <<>>)

(***************************************************************************)
(* Comparison.  PolicyInstruction::operator== and operator!= (parser.hpp)  *)
(* look at type and data, the members of the struct they belong to;        *)
(* operator!= joins its two tests with &&.  equal (testcases.hpp) compares *)
(* two documents: false when either has no body or the sizes differ, else  *)
(* key, value, type and data position by position.                         *)
(***************************************************************************)
PolicyInstructionEq(a, b) == a.type = b.type /\ a.data = b.data

PolicyInstructionNe(a, b) == a.type # b.type /\ a.data # b.data

equal(a, b) ==
    IF ~a.has_body \/ ~b.has_body THEN FALSE
    ELSE IF Len(b.instructions) # Len(a.instructions) THEN FALSE
    ELSE \A i \in 1..Len(a.instructions) :
            /\ ~(a.instructions[i].key # b.instructions[i].key)
            /\ ~(a.instructions[i].value # b.instructions[i].value)
            /\ ~(a.instructions[i].type # b.instructions[i].type)
            /\ ~(a.instructions[i].data # b.instructions[i].data)

\* Instructions a caller can build that no file holds: the type REG_NONE, and
\* data of another shape than the type's (type and data are independent
\* members of PolicyInstruction).
BadInstrs ==
    { PolicyInstruction(<<65>>, <<66>>, REG_NONE, DefaultPolicyData),
      PolicyInstruction(<<65>>, <<66>>, REG_NONE, PolicyData("u32", <<1, 0, 0, 0>>)),
      PolicyInstruction(<<65>>, <<66>>, REG_SZ, PolicyData("u32", <<1, 0, 0, 0>>)),
      PolicyInstruction(<<65>>, <<66>>, REG_DWORD_LITTLE_ENDIAN,
                        PolicyData("string", <<88>>)),
      PolicyInstruction(<<65>>, <<66>>, REG_BINARY, PolicyData("strings", <<<<97>>>>)),
      PolicyInstruction(<<65>>, <<66>>, REG_MULTI_SZ, PolicyData("bytes", <<7>>)),
      PolicyInstruction(<<65>>, <<66>>, REG_QWORD_BIG_ENDIAN,
                        PolicyData("u32", <<1, 0, 0, 0>>)) }

\* The documents: without a body; of valid instructions; and of valid
\* instructions followed by one that is not.
Docs ==
    {NoBody}
    \cup { PolicyFile(TRUE, q) : q \in SeqsUpTo(Instrs, MaxInstr) }
    \cup { PolicyFile(TRUE, Append(q, b)) :
             q \in SeqsUpTo(Instrs, MaxInstr - 1), b \in BadInstrs }

\* The output streams handed to write: with the document without a body a new
\* one, one that holds bytes already and one whose failbit is set; with a body
\* of at most one instruction a new one and one whose failbit is set.
FailedOStream == [NewOStream EXCEPT !.fail = TRUE]

OStreams == {NewOStream, [NewOStream EXCEPT !.bytes = <<80, 82>>], FailedOStream}

\* The outcomes of undefined behaviour.
UB == {"proceed", "crash"}

(***************************************************************************)
(* The state machine.  In mode "bytes" a stream is parsed and the document *)
(* parse returned is written (testCase); in mode "doc" a document is       *)
(* written and the bytes written are parsed (testCase2, generateCase).     *)
(***************************************************************************)
Init ==
    /\ mode \in {"bytes", "doc"}
    /\ IF mode = "bytes"
       THEN /\ wire \in Wires
            /\ input = WireBytes(wire)
            /\ file = NoBody
       ELSE /\ wire = NoWire
            /\ input = <<>>
            /\ file \in Docs
    /\ rd = NewStream
    /\ ppc = "idle"
    /\ body = <<>>
    /\ starts = <<>>
    /\ os \in (IF mode = "doc" /\ file = NoBody THEN OStreams
               ELSE IF mode = "doc" /\ Len(file.instructions) <= 1
                    THEN {NewOStream, FailedOStream}
                    ELSE {NewOStream})
    /\ wpc = "idle"
    /\ wi = 0
    /\ iconvs = 2
    /\ destroyed = FALSE

\* parse: the header, then the one-byte read that sets eofbit at the end.
ParseHeader ==
    /\ ppc = "idle"
    /\ mode = "doc" => wpc = "true"
    /\ LET h == parseHeader(input, rd)
           peek == read(input, h.st, 1)
       IN  IF h.kind # "ok"
           THEN ppc' = "error" /\ rd' = h.st
           ELSE ppc' = "loop" /\ rd' = peek.st
    /\ UNCHANGED <<mode, input, wire, body, starts, file, os, wpc, wi, iconvs,
                   destroyed>>

\* The loop's turn putting the instruction first (a mutation of Parsed).
ParsedFirst(ins, start) ==
    IF ins.kind = "ok"
    THEN /\ ppc' = "loop"
         /\ body' = <<ins.val>> \o body
         /\ starts' = <<start>> \o starts
         /\ rd' = read(input, ins.st, 1).st
    ELSE /\ ppc' = (IF ins.kind = "crash" THEN "crashed" ELSE "error")
         /\ rd' = ins.st
         /\ UNCHANGED <<body, starts>>

\* The loop's turn leaving the loop at an error with what it has (a mutation
\* of Parsed).
ParsedSoFar(ins, start) ==
    IF ins.kind = "ok"
    THEN /\ ppc' = "loop"
         /\ body' = Append(body, ins.val)
         /\ starts' = Append(starts, start)
         /\ rd' = read(input, ins.st, 1).st
    ELSE /\ ppc' = "loop"
         /\ rd' = [ins.st EXCEPT !.eof = TRUE]
         /\ UNCHANGED <<body, starts>>

\* The loop's turn that leaves the stream where it was and appends nothing (a
\* mutation of Parsed).
ParsedInPlace(ins, start) ==
    IF ins.kind = "ok"
    THEN /\ ppc' = "loop"
         /\ UNCHANGED <<body, starts, rd>>
    ELSE /\ ppc' = (IF ins.kind = "crash" THEN "crashed" ELSE "error")
         /\ rd' = ins.st
         /\ UNCHANGED <<body, starts>>

\* parse: one turn of the loop: step back a byte, read an instruction, append
\* it, read a byte.  ins is what getInstruction returned from offset start.
Parsed(ins, start) ==
    IF ins.kind = "ok"
    THEN /\ ppc' = "loop"
         /\ body' = Append(body, ins.val)
         /\ starts' = Append(starts, start)
         /\ rd' = read(input, ins.st, 1).st
    ELSE /\ ppc' = (IF ins.kind = "crash" THEN "crashed" ELSE "error")
         /\ rd' = ins.st
         /\ UNCHANGED <<body, starts>>

ParseInstruction ==
    /\ ppc = "loop"
    /\ ~rd.eof
    /\ \E ub \in UB :
          Parsed(getInstruction(input, seekg(input, rd, -1), ub),
                 seekg(input, rd, -1).pos)
    /\ iconvs' = iconvs + iconvOpenedReading(beforeData(input, seekg(input, rd, -1)))
    /\ UNCHANGED <<mode, input, wire, file, os, wpc, wi, destroyed>>

\* parse: return { body }.  In mode "bytes" the document goes to write.
ParseReturn ==
    /\ ppc = "loop"
    /\ rd.eof
    /\ ppc' = "accepted"
    /\ file' = IF mode = "bytes" THEN PolicyFile(TRUE, body) ELSE file
    /\ UNCHANGED <<mode, input, wire, rd, body, starts, os, wpc, wi, iconvs,
                   destroyed>>

\* A write that starts with the header whether there is a body or not.
WriteBeginHeaderFirst ==
    /\ wpc = "idle"
    /\ mode = "bytes" => ppc = "accepted"
    /\ os' = writeHeader(os)
    /\ wpc' = (IF ~file.has_body THEN "true" ELSE "instr")
    /\ UNCHANGED <<mode, input, wire, rd, ppc, body, starts, file, wi, iconvs,
                   destroyed>>

\* write: nothing to do without a body; else the header.
WriteBegin ==
    /\ wpc = "idle"
    /\ mode = "bytes" => ppc = "accepted"
    /\ IF ~file.has_body
       THEN wpc' = "true" /\ os' = os
       ELSE wpc' = "instr" /\ os' = writeHeader(os)
    /\ UNCHANGED <<mode, input, wire, rd, ppc, body, starts, file, wi, iconvs,
                   destroyed>>

\* write: the next instruction of the body.  w is what writeInstruction did.
Written(w) ==
    /\ os' = w.o
    /\ IF w.kind = "ok"
       THEN wpc' = "instr" /\ wi' = wi + 1
       ELSE /\ wpc' = (IF w.kind = "crash" THEN "crashed" ELSE "error")
            /\ wi' = wi

WriteInstruction ==
    /\ wpc = "instr"
    /\ wi < Len(file.instructions)
    /\ \E ub \in UB : Written(writeInstruction(os, file.instructions[wi + 1], ub))
    /\ iconvs' = iconvs + iconvOpenedWriting(os, file.instructions[wi + 1])
    /\ UNCHANGED <<mode, input, wire, rd, ppc, body, starts, file, destroyed>>

\* write: return true.  In mode "doc" the bytes written go to parse.
WriteReturn ==
    /\ wpc = "instr"
    /\ wi = Len(file.instructions)
    /\ wpc' = "true"
    /\ input' = IF mode = "doc" THEN os.bytes ELSE input
    /\ UNCHANGED <<mode, wire, rd, ppc, body, starts, file, os, wi, iconvs,
                   destroyed>>

\* ~PRegParserPrivate, once parse and write are over: the two descriptors of
\* the object are closed.
Destroy ==
    /\ ~destroyed
    /\ IF mode = "bytes"
       THEN ppc = "error" \/ (ppc = "accepted" /\ wpc \in {"true", "error"})
       ELSE wpc = "error" \/ (wpc = "true" /\ ppc \in {"accepted", "error"})
    /\ destroyed' = TRUE
    /\ iconvs' = iconvs - 2
    /\ UNCHANGED <<mode, input, wire, rd, ppc, body, starts, file, os, wpc, wi>>

Next ==
    \/ ParseHeader
    \/ ParseInstruction
    \/ ParseReturn
    \/ WriteBegin
    \/ WriteInstruction
    \/ WriteReturn
    \/ Destroy

Spec == Init /\ [][Next]_vars

\* Some step of Next is possible: the guards of the seven actions.
CanStep ==
    \/ ppc = "idle" /\ (mode = "doc" => wpc = "true")
    \/ ppc = "loop"
    \/ wpc = "idle" /\ (mode = "bytes" => ppc = "accepted")
    \/ wpc = "instr"
    \/ ~destroyed /\ (IF mode = "bytes"
                       THEN ppc = "error" \/ (ppc = "accepted" /\ wpc \in {"true", "error"})
                       ELSE wpc = "error" \/ (wpc = "true" /\ ppc \in {"accepted", "error"}))

\* The calls run to their end: parse and write are sequential code that keeps
\* taking its next step.  This is weak fairness of Next, WF_vars(Next), with
\* the enabling condition written out as CanStep.
FairSpec == Spec /\ ([]<>(~CanStep) \/ []<><<Next>>_vars)

(***************************************************************************)
(* The destination buffers of the read primitives: for each call of        *)
(* istream::read, the bytes asked for (n) and the bytes its destination    *)
(* holds.  A length computed in size_t wraps below zero (wraps); the       *)
(* storage of a basic_string<char16_t> of u units is u + 1 units, the      *)
(* terminator included.                                                    *)
(***************************************************************************)
\* a - b in size_t: the difference, and whether it wrapped round to 2^64 + (a - b).
SizeSub(a, b) == [wraps |-> a < b, n |-> a - b]

Store(units, unit, n) ==
    [wraps |-> units.wraps, holds |-> (units.n + 1) * unit, n |-> n]

\* bufferToString: source((size / 2) - 1, 0), then read(source.data(), size).
bufferToStringStore(size) == Store(SizeSub(size \div 2, 1), 2, size)

\* bufferToStrings: tmp.resize(size - 1), then read(tmp.data(), size).
bufferToStringsStore(size) == Store(SizeSub(size, 1), 2, size)

\* bufferToVector: result.resize(size), then read(result.data(), size).
bufferToVectorStore(size) == [wraps |-> FALSE, holds |-> size, n |-> size]

\* bufferToIntegral<T, LE>: T num, then read(&num, sizeof(T)).
bufferToIntegralStore(width) == [wraps |-> FALSE, holds |-> width, n |-> width]

\* bufferToUint64 and bufferToUint64BE: unsigned char tmp[4], then read(tmp, 8).
bufferToUint64Store == [wraps |-> FALSE, holds |-> 4, n |-> 8]

(***************************************************************************)
(* The properties.                                                         *)
(***************************************************************************)
FirstBytes(bytes, n) == SubSeq(bytes, 1, IF Len(bytes) < n THEN Len(bytes) ELSE n)

ParseEnded == ppc \in {"accepted", "error", "crashed"}
WriteEnded == wpc \in {"true", "error", "crashed"}

\* C1, byte exactness (P2): for every byte sequence that parse accepts, write
\* applied to the document parse returned succeeds and emits exactly that byte
\* sequence, byte for byte and with the same length.
C1_ByteExactness ==
    (mode = "bytes" /\ ppc = "accepted" /\ WriteEnded)
        => (wpc = "true" /\ os.bytes = input)

\* C2, round trip (P1): for every document with a body of valid instructions,
\* write succeeds, and parse of the bytes written succeeds and returns a
\* document with the same instructions, position by position.
C2_RoundTrip ==
    (mode = "doc" /\ file.has_body)
        => /\ wpc \notin {"error", "crashed"}
           /\ ppc \notin {"error", "crashed"}
           /\ ppc = "accepted" => body = file.instructions

\* C3, the header check: an input whose first four bytes are not the signature,
\* or whose next four bytes are not the version, is rejected with an error: its
\* parse never gets past the header.
C3_HeaderVerified ==
    (mode = "bytes" /\ FirstBytes(input, 8) # valid_header)
        => ppc \in {"idle", "error"}

\* The offset in the stream of the i-th record of a wire layout, and of its payload.
RecStart(w, i) == Len(w.hdr) + Len(RecsBytes(SubSeq(w.recs, 1, i - 1)))

DataStart(w, i) ==
    RecStart(w, i) + Len(RecBytes(w.recs[i])) - Len(w.recs[i].data) - Len(w.recs[i].rbr)

\* A record decoded on its own, behind a header.
Decoded(rec, ub) ==
    getInstruction(valid_header \o RecBytes(rec), [NewStream EXCEPT !.pos = 8], ub)

DecodesTo(rec, instruction) ==
    \E ub \in UB : Decoded(rec, ub) = Ok(Decoded(rec, ub).st, instruction)

\* What writeInstruction emits for one instruction.
Emitted(instruction) == writeInstruction(NewOStream, instruction, "proceed").o.bytes

\* C4, order preservation (P3): the instructions parse has appended are the
\* decodings of the records of the input, the i-th of the i-th, each read from
\* the offset where its record begins, and an accepted input of n records gives
\* exactly n instructions; write's output on a stream that has not failed is
\* the header followed by what writeInstruction emits for the instructions of
\* the body, first to last.
C4_OrderPreserved ==
    /\ mode = "bytes" =>
          /\ Len(body) <= Len(wire.recs)
          /\ \A i \in 1..Len(body) :
                /\ starts[i] = RecStart(wire, i)
                /\ DecodesTo(wire.recs[i], body[i])
          /\ (ppc = "accepted" /\ wire.cut = 0) => Len(body) = Len(wire.recs)
    /\ (wpc \in {"instr", "true"} /\ file.has_body /\ ~os.fail) =>
          /\ os.bytes = valid_header
                        \o Concat([i \in 1..wi |-> Emitted(file.instructions[i])])
          /\ wpc = "true" => wi = Len(file.instructions)

\* C4's case: two different records accepted in their order, and written.
C4_Witness ==
    /\ mode = "bytes"
    /\ ppc = "accepted"
    /\ Len(body) = 2
    /\ body[1].type = REG_DWORD_LITTLE_ENDIAN
    /\ body[2].type = REG_SZ
    /\ wpc = "true"
    /\ Len(os.bytes) > Len(valid_header)

\* The payload alternative the table gives a type.
ShapeOf(type) ==
    CASE type \in {REG_SZ, REG_EXPAND_SZ, REG_LINK} -> "string"
      [] type = REG_BINARY -> "bytes"
      [] type \in {REG_DWORD_LITTLE_ENDIAN, REG_DWORD_BIG_ENDIAN} -> "u32"
      [] type \in {REG_QWORD_LITTLE_ENDIAN, REG_QWORD_BIG_ENDIAN} -> "u64"
      [] type \in {REG_MULTI_SZ, REG_RESOURCE_LIST, REG_FULL_RESOURCE_DESCRIPTOR,
                   REG_RESOURCE_REQUIREMENTS_LIST} -> "strings"
      [] OTHER -> "none"

Agrees(instruction) ==
    /\ instruction.type \in REG_SZ..REG_QWORD_BIG_ENDIAN
    /\ instruction.data.tag = ShapeOf(instruction.type)
    /\ instruction.data.tag = "u32" => Len(instruction.data.val) = 4
    /\ instruction.data.tag = "u64" => Len(instruction.data.val) = 8

BadType(rec) == ToNat(rec.type) \notin REG_SZ..REG_QWORD_BIG_ENDIAN

C7_FixedWidthSize ==
    mode = "bytes" =>
       \A i \in 1..Len(body) :
          /\ body[i].type \in {REG_DWORD_LITTLE_ENDIAN, REG_DWORD_BIG_ENDIAN}
                => ToNat(wire.recs[i].size) = 4
          /\ body[i].type \in {REG_QWORD_LITTLE_ENDIAN, REG_QWORD_BIG_ENDIAN}
                => ToNat(wire.recs[i].size) = 8
          /\ ToNat(wire.recs[i].size) = Len(wire.recs[i].data)

\* bufferToString on the payload of the i-th record, with its declared size.
ReadString(i, ub) ==
    bufferToString(input, [NewStream EXCEPT !.pos = DataStart(wire, i)],
                   ToNat(wire.recs[i].size), ub)

\* The block of the declared size at the payload of the i-th record.
Block(i) ==
    SubSeq(input, DataStart(wire, i) + 1,
           IF DataStart(wire, i) + ToNat(wire.recs[i].size) > Len(input)
           THEN Len(input) ELSE DataStart(wire, i) + ToNat(wire.recs[i].size))

Succeeded(res) == res.kind = "ok" /\ res.val.has_value

\* What the claim says of a result res for a block of the declared size.
ReadStringAsClaimed(size, start, block, res) ==
    IF size % 2 = 1 \/ size < 2 \/ Len(block) < size
       \/ block[size - 1] # 0 \/ block[size] # 0
       \/ ~Utf16ToUtf8(UnitsOf(SubSeq(block, 1, size - 2))).has_value
    THEN ~Succeeded(res)
    ELSE /\ Succeeded(res)
         /\ res.st.pos = start + size
         /\ res.val.value = Utf16ToUtf8(UnitsOf(SubSeq(block, 1, size - 2))).value
         /\ size = 2 => res.val.value = <<>>

\* C8, readString: on a block of sizeBytes bytes it fails when sizeBytes is
\* odd or below 2 or when the block's final code unit is not zero; otherwise it
\* consumes sizeBytes bytes and returns the units before the terminator in
\* UTF-8, the empty string for sizeBytes = 2.
C8_ReadStringContract ==
    mode = "bytes" =>
       \A i \in 1..Len(wire.recs) : \A ub \in UB :
          ReadStringAsClaimed(ToNat(wire.recs[i].size), DataStart(wire, i),
                              Block(i), ReadString(i, ub))

isKeyCharacter(sym) == sym >= 32 /\ sym <= 126 /\ sym # 92

\* One or more non-empty segments of key characters, single backslashes between.
ValidKeyPath(k) ==
    /\ k # <<>>
    /\ \A j \in 1..Len(k) : k[j] = 92 \/ isKeyCharacter(k[j])
    /\ k[1] # 92
    /\ k[Len(k)] # 92
    /\ \A j \in 1..(Len(k) - 1) : ~(k[j] = 92 /\ k[j + 1] = 92)

\* C9, key paths: a record gives an instruction only if its key field is a
\* valid key path, and the instruction's key is that path, segments joined by
\* backslashes; an input holding a record with any other key field (empty, a
\* leading, trailing or double backslash, a unit out of range) is never
\* accepted and its parse ends with an error.
C9_KeyPathValidated ==
    mode = "bytes" =>
       \A i \in 1..Len(wire.recs) :
          /\ i <= Len(body) =>
                /\ ValidKeyPath(wire.recs[i].key)
                /\ body[i].key = wire.recs[i].key
          /\ ~ValidKeyPath(wire.recs[i].key) =>
                /\ ppc # "accepted"
                /\ ParseEnded => ppc = "error"

\* C9's case: the key A\\B (two backslashes) refused at the second backslash.
C9_Witness ==
    /\ mode = "bytes"
    /\ Len(wire.recs) = 1
    /\ wire.recs[1].key = <<65, 92, 92, 66>>
    /\ ppc = "error"
    /\ body = <<>>
    /\ rd.pos = RecStart(wire, 1) + Len(LBR) + 6

IsValueText(v) == \A j \in 1..Len(v) : isValueCharacter(v[j])

HasBadValueUnit(rec) == ~IsValueText(rec.value) \/ rec.vterm # <<0>>

\* C11, the value's characters: an input holding a record whose value field
\* has, before its zero unit, a unit outside [0x20,0x7E] is never accepted, and
\* the record gives no instruction (with the value replaced or otherwise).
C11_BadValueRejected ==
    mode = "bytes" =>
       \A i \in 1..Len(wire.recs) :
          HasBadValueUnit(wire.recs[i]) =>
             /\ ppc # "accepted"
             /\ Len(body) < i

\* The delimiters of a record, in the order of the wire.
DelimsOf(rec) == <<rec.lbr>> \o rec.seps \o <<rec.rbr>>
ExpectedDelims == <<LBR, SEP, SEP, SEP, SEP, RBR>>

\* C12, the delimiters: an input holding a record one of whose six delimiters
\* is not exactly 5B 00, 3B 00 (four times), 5D 00 is never accepted and the
\* record gives no instruction, whichever of the two bytes differs.
C12_DelimitersExact ==
    mode = "bytes" =>
       \A i \in 1..Len(wire.recs) :
          DelimsOf(wire.recs[i]) # ExpectedDelims =>
             /\ ppc # "accepted"
             /\ Len(body) < i

\* A record with a delimiter whose low byte is right and whose high byte is
\* wrong has been read and refused.
C12_Witness ==
    /\ mode = "bytes"
    /\ ppc = "error"
    /\ \E i \in 1..Len(wire.recs) :
          /\ Len(body) = i - 1
          /\ \E j \in 1..6 :
                /\ DelimsOf(wire.recs[i])[j][1] = ExpectedDelims[j][1]
                /\ DelimsOf(wire.recs[i])[j][2] # 0

\* The record grammar of the format, applied to bytes: each operator takes an
\* offset (or -1, no parse) and gives the offset behind the field (or -1).
SkipSym(bytes, p, sym) ==
    IF p # -1 /\ p + 2 <= Len(bytes) /\ SubSeq(bytes, p + 1, p + 2) = sym
    THEN p + 2 ELSE -1

\* Units up to and including the first zero unit.
SkipText(bytes, p) ==
    IF p = -1 THEN -1
    ELSE LET ends == { k \in 0..((Len(bytes) - p) \div 2) :
                          /\ p + (2 * k) + 2 <= Len(bytes)
                          /\ bytes[p + (2 * k) + 1] = 0
                          /\ bytes[p + (2 * k) + 2] = 0 }
         IN  IF ends = {} THEN -1
             ELSE p + (2 * (CHOOSE k \in ends : \A m \in ends : k <= m)) + 2

SkipBytes(bytes, p, n) ==
    IF p # -1 /\ p + n <= Len(bytes) THEN p + n ELSE -1

\* The size field, the separator behind it, and as many bytes as it declares.
SkipSizeAndPayload(bytes, p) ==
    IF p = -1 \/ p + 4 > Len(bytes) THEN -1
    ELSE SkipBytes(bytes, SkipSym(bytes, p + 4, SEP),
                   ToNat(SubSeq(bytes, p + 1, p + 4)))

RecordEnd(bytes, p) ==
    SkipSym(bytes,
      SkipSizeAndPayload(bytes,
        SkipSym(bytes,
          SkipBytes(bytes,
            SkipSym(bytes,
              SkipText(bytes,
                SkipSym(bytes,
                  SkipText(bytes,
                    SkipSym(bytes, p, LBR)), SEP)), SEP), 4), SEP)), RBR)

\* The bytes from offset p to the end are zero or more complete records.
RECURSIVE WholeRecords(_, _)
WholeRecords(bytes, p) ==
    IF p = -1 THEN FALSE
    ELSE IF p = Len(bytes) THEN TRUE
    ELSE WholeRecords(bytes, RecordEnd(bytes, p))

\* C13, no partial input: an accepted input is eight header bytes followed by
\* zero or more complete records, each with a payload of the declared size; an
\* input that ends inside the header or inside a record is rejected.
C13_OnlyWholeRecords ==
    (mode = "bytes" /\ ppc = "accepted") =>
        /\ Len(input) >= Len(valid_header)
        /\ WholeRecords(input, Len(valid_header))

\* The same, leaving out the records of C7 (an integer type with a size field
\* that is not the width) and of C11 (a value field with a unit out of range).
C13_ApartFromC7C11 ==
    (/\ mode = "bytes"
     /\ ppc = "accepted"
     /\ \A i \in 1..Len(body) :
           /\ ~HasBadValueUnit(wire.recs[i])
           /\ body[i].data.tag \in {"u32", "u64"}
                 => ToNat(wire.recs[i].size) = Len(body[i].data.val)) =>
        /\ Len(input) >= Len(valid_header)
        /\ WholeRecords(input, Len(valid_header))

\* C14, the document without a body: the step in which write is applied to a
\* document that has no body leaves the output stream as it was, its bytes and
\* its state, and write returns true.
C14_NoBodyWritesNothing ==
    [][(wpc = "idle" /\ wpc' # "idle" /\ ~file.has_body)
          => (os' = os /\ wpc' = "true")]_vars

\* write has returned for the document without a body, on a stream that held
\* bytes before the call.
C14_Witness ==
    /\ mode = "doc"
    /\ ~file.has_body
    /\ wpc = "true"
    /\ os.bytes # <<>>

\* C15, the header-only file: parse of exactly the eight header bytes never
\* fails, appends no instruction and returns a document with a present, empty
\* body; write of a document with a present, empty body to a stream that has
\* not failed never fails and has emitted exactly the eight header bytes when
\* it returns.
C15_HeaderOnly ==
    /\ (mode = "bytes" /\ input = valid_header) =>
          /\ ppc \in {"idle", "loop", "accepted"}
          /\ ppc = "loop" => rd.eof
          /\ body = <<>>
          /\ ppc = "accepted" => file = PolicyFile(TRUE, <<>>)
    /\ (file = PolicyFile(TRUE, <<>>) /\ wpc # "idle" /\ ~os.fail) =>
          /\ wpc \in {"instr", "true"}
          /\ os.bytes = valid_header

\* The eight bytes have been parsed, and the document returned written; and a
\* document with an empty body has been written first and its bytes parsed.
C15_Witness ==
    /\ ppc = "accepted"
    /\ wpc = "true"
    /\ input = valid_header
    /\ file = PolicyFile(TRUE, <<>>)
    /\ os.bytes = valid_header

\* The wire form the format gives a text: its UTF-16LE units and a zero unit.
TextBytes(text) == BytesOf(Utf8ToUtf16(text).value \o <<0>>)

\* The payload the format gives the data of an instruction.
PayloadBytes(instruction) ==
    CASE instruction.data.tag = "string" -> TextBytes(instruction.data.val)
      [] instruction.data.tag = "bytes" -> instruction.data.val
      [] instruction.data.tag \in {"u32", "u64"} ->
            IF instruction.type \in {REG_DWORD_BIG_ENDIAN, REG_QWORD_BIG_ENDIAN}
            THEN Reverse(instruction.data.val) ELSE instruction.data.val
      [] OTHER ->
            Concat([i \in 1..Len(instruction.data.list) |->
                       TextBytes(instruction.data.list[i])]) \o <<0, 0>>

\* The record the format gives an instruction.
Layout(instruction) ==
    LBR \o TextBytes(instruction.key) \o SEP
        \o TextBytes(instruction.value) \o SEP
        \o ToUint32(instruction.type) \o SEP
        \o ToUint32(Len(PayloadBytes(instruction))) \o SEP
        \o PayloadBytes(instruction) \o RBR

\* Scenario 3: key "A", value "B", REG_SZ, data "X", and its forty bytes.
Scenario3 ==
    PolicyFile(TRUE,
        <<PolicyInstruction(<<65>>, <<66>>, REG_SZ, PolicyData("string", <<88>>))>>)

Scenario3Bytes ==
    <<80, 82, 101, 103, 1, 0, 0, 0, 91, 0, 65, 0, 0, 0, 59, 0, 66, 0, 0, 0,
      59, 0, 1, 0, 0, 0, 59, 0, 4, 0, 0, 0, 59, 0, 88, 0, 0, 0, 93, 0>>

\* C16, the layout write gives an instruction: write of a document does not
\* fail, and always what it has emitted is the header followed, for each
\* instruction done, by the bracket, the key and a zero unit, the value and a
\* zero unit, the type and the size as 32-bit little-endian numbers, the
\* payload of exactly size bytes and the closing bracket, with a separator
\* between the fields; the document of scenario 3 comes out as its forty bytes.
C16_WireLayout ==
    (mode = "doc" /\ file.has_body /\ wpc # "idle") =>
        /\ wpc \in {"instr", "true"}
        /\ os.bytes = valid_header
                      \o Concat([i \in 1..wi |-> Layout(file.instructions[i])])
        /\ (file = Scenario3 /\ wpc = "true") => os.bytes = Scenario3Bytes

\* The block the format gives a list: each element's units and a zero unit,
\* then one more zero unit.
ListBytes(list) ==
    Concat([i \in 1..Len(list) |-> TextBytes(list[i])]) \o <<0, 0>>

\* What the claim says of the result w of writing a list to an empty stream.
ListWrittenAsClaimed(list, w) ==
    /\ w.kind = "ok"
    /\ w.o.bytes = ListBytes(list)
    /\ w.ret = Len(ListBytes(list))
    /\ list = <<>> => w.o.bytes = <<0, 0>>
    /\ list = <<<<97>>, <<98>>>> => w.o.bytes = <<97, 0, 0, 0, 98, 0, 0, 0, 0, 0>>

\* C17, the list payload on write: for the list of every instruction of the
\* document, the list writer emits each element as UTF-16LE units and a zero
\* unit, then one more zero unit, and returns the number of bytes; the empty
\* list gives the two bytes 00 00 and ["a","b"] gives 61 00 00 00 62 00 00 00
\* 00 00.
C17_ListPayload ==
    \A i \in 1..Len(file.instructions) :
       file.instructions[i].data.tag = "strings" =>
          ListWrittenAsClaimed(file.instructions[i].data.list,
                               StringsToBuffer(NewOStream, file.instructions[i].data.list))

\* bufferToStrings on the payload of the i-th record, with its declared size.
ReadStrings(i, ub) ==
    bufferToStrings(input, [NewStream EXCEPT !.pos = DataStart(wire, i)],
                    ToNat(wire.recs[i].size), ub)

\* The strings of units that are a run of zero-terminated strings: the piece
\* before each zero unit, in order.
PiecesOf(units) ==
    LET zeros == {j \in 1..Len(units) : units[j] = 0}
        before(j) == {z \in zeros : z < j}
        start(j) == IF before(j) = {} THEN 1
                    ELSE (CHOOSE z \in before(j) : \A y \in before(j) : y <= z) + 1
    IN  [m \in 1..Cardinality(zeros) |->
            LET j == CHOOSE z \in zeros : Cardinality(before(z)) = m - 1
            IN  SubSeq(units, start(j), j - 1)]

\* What the claim says of a result res for a block of size bytes read at
\* start: a failure for a size that is odd or below 2 and for a block that
\* does not end in a zero unit; for zero-terminated strings followed by one
\* more zero unit, the strings in order, in UTF-8, and size bytes consumed.
ReadStringsAsClaimed(size, start, block, res) ==
    IF size % 2 = 1 \/ size < 2 \/ Len(block) < size
       \/ block[size - 1] # 0 \/ block[size] # 0
    THEN ~Succeeded(res)
    ELSE LET units == UnitsOf(SubSeq(block, 1, size - 2))
             pieces == PiecesOf(units)
         IN  (/\ size > 2 => units[Len(units)] = 0
              /\ \A m \in 1..Len(pieces) : Utf16ToUtf8(pieces[m]).has_value) =>
                 /\ Succeeded(res)
                 /\ res.st.pos = start + size
                 /\ res.val.value = [m \in 1..Len(pieces) |-> Utf16ToUtf8(pieces[m]).value]
                 /\ size = 2 => res.val.value = <<>>

\* C18, readStrings: on a block of sizeBytes bytes holding k zero-terminated
\* strings and one more zero unit it consumes sizeBytes bytes and returns the k
\* strings in order, with no empty element added, the empty list for
\* sizeBytes = 2; it fails when sizeBytes is odd or below 2 and when the block
\* does not end in a zero unit.
C18_ReadStringsContract ==
    mode = "bytes" =>
       \A i \in 1..Len(wire.recs) : \A ub \in UB :
          DataStart(wire, i) <= Len(input) =>
             ReadStringsAsClaimed(ToNat(wire.recs[i].size), DataStart(wire, i),
                                  Block(i), ReadStrings(i, ub))

\* The texts of an instruction that go through stringToBuffer.
TextsOf(instruction) ==
    {instruction.key, instruction.value}
    \cup (IF instruction.data.tag = "string" THEN {instruction.data.val} ELSE {})
    \cup {instruction.data.list[j] : j \in 1..Len(instruction.data.list)}

\* What the claim says of the result w of writing text to an empty stream.
WriteStringAsClaimed(text, w) ==
    IF Utf8ToUtf16(text).has_value
    THEN /\ w.kind = "ok"
         /\ w.o.bytes = TextBytes(text)
         /\ w.ret = 2 * (Len(Utf8ToUtf16(text).value) + 1)
         /\ w.ret % 2 = 0 /\ w.ret >= 2
         /\ text = <<>> => (w.o.bytes = <<0, 0>> /\ w.ret = 2)
    ELSE w.kind # "ok"

\* C19, writeString: for every text of the document, stringToBuffer emits the
\* text's UTF-16LE units and one zero unit and returns the number of bytes
\* emitted, 2 * (units + 1), even and at least 2 (the empty text: 00 00, and
\* 2); a text that does not convert gives an error and no count.
C19_WriteStringContract ==
    \A i \in 1..Len(file.instructions) :
       \A text \in TextsOf(file.instructions[i]) :
          WriteStringAsClaimed(text, stringToBuffer(NewOStream, text))

\* The integers of the states: the first 2, 4 and 8 bytes of the payloads of
\* the input's records and the integers of the document, each as its bytes,
\* least significant first.
Widths == {2, 4, 8}

IntegersAt(width) ==
    { SubSeq(wire.recs[i].data, 1, width) :
        i \in {j \in 1..Len(wire.recs) : Len(wire.recs[j].data) >= width} }
    \cup { file.instructions[i].data.val :
             i \in {j \in 1..Len(file.instructions) :
                      /\ file.instructions[j].data.tag \in {"u32", "u64"}
                      /\ Len(file.instructions[j].data.val) = width} }

\* The bytes the claim gives the integer v in an order.
InOrder(v, LE) == IF LE THEN v ELSE Reverse(v)

\* What the claim says of the templates for the integer v of a width.
TemplatesAsClaimed(v, width, LE) ==
    /\ integralToBuffer(NewOStream, v, LE).bytes = InOrder(v, LE)
    /\ Len(integralToBuffer(NewOStream, v, LE).bytes) = width
    /\ bufferToIntegral(InOrder(v, LE), NewStream, width, LE).st.pos = width
    /\ bufferToIntegral(InOrder(v, LE), NewStream, width, LE).opt = Some(v)

\* What the claim says of a result res of reading a 64-bit integer v.
ReadAsClaimed(v, res) ==
    /\ res.kind = "ok"
    /\ res.st.pos = 8
    /\ res.val = Some(v)

\* The claim for the templates alone.
C20_Templates ==
    \A width \in Widths : \A v \in IntegersAt(width) : \A LE \in BOOLEAN :
       TemplatesAsClaimed(v, width, LE)

\* C20, the integer primitives: for every integer of 16, 32 or 64 bits and
\* each byte order, the write primitive emits the integer's bytes in that
\* order, as many as the width, and the read primitive applied to those bytes
\* consumes them and returns the integer whole; a 64-bit integer of 2^32 or
\* more comes back unchanged.
C20_IntegerPrimitives ==
    /\ \A width \in Widths : \A v \in IntegersAt(width) : \A LE \in BOOLEAN :
          TemplatesAsClaimed(v, width, LE)
    /\ \A v \in IntegersAt(8) : \A ub \in UB :
          /\ ReadAsClaimed(v, bufferToUint64(InOrder(v, TRUE), NewStream, ub))
          /\ ReadAsClaimed(v, bufferToUint64BE(InOrder(v, FALSE), NewStream, ub))

\* The order the type tag gives a numeric payload.
LittleEndianType(type) ==
    type \in {REG_DWORD_LITTLE_ENDIAN, REG_QWORD_LITTLE_ENDIAN}

IsInteger(instruction) ==
    /\ instruction.data.tag \in {"u32", "u64"}
    /\ instruction.data.tag = ShapeOf(instruction.type)

\* Whether the sequence ends with the given bytes.
EndsWith(bytes, tail) ==
    /\ Len(bytes) >= Len(tail)
    /\ SubSeq(bytes, Len(bytes) - Len(tail) + 1, Len(bytes)) = tail

\* The payload bytes consumed for the i-th record when it gave an integer.
RawInteger(i) ==
    SubSeq(input, DataStart(wire, i) + 1, DataStart(wire, i) + Len(body[i].data.val))

\* C21, byte order by type: the integer of an accepted numeric record is its
\* payload read most significant byte first for the BIG_ENDIAN types and least
\* significant first for the LITTLE_ENDIAN ones, on a host of either byte
\* order; the type of every accepted record is its type field read
\* little-endian and a text or binary payload has as many bytes as the size
\* field read little-endian; on write the integer's payload is its bytes in the
\* order of the type, on either host, and an instruction written without an
\* error has it behind the type and the size as little-endian fields.
C21_ByteOrderByType ==
    /\ mode = "bytes" =>
          \A i \in 1..Len(body) :
             /\ body[i].type = ToNat(wire.recs[i].type)
             /\ body[i].data.tag \in {"string", "bytes"}
                   => ToNat(wire.recs[i].size) = Len(wire.recs[i].data)
             /\ IsInteger(body[i]) =>
                   /\ body[i].data.val
                         = InOrder(RawInteger(i), LittleEndianType(body[i].type))
                   /\ \A host \in Hosts :
                         bufferToIntegralOn(host, RawInteger(i),
                                            LittleEndianType(body[i].type))
                            = body[i].data.val
    /\ \A i \in 1..Len(file.instructions) :
          IsInteger(file.instructions[i]) =>
             LET ins == file.instructions[i]
                 payload == InOrder(ins.data.val, LittleEndianType(ins.type))
             IN  /\ getDataStream(ins.data, ins.type).opt = Some(payload)
                 /\ \A host \in Hosts :
                       integralToBufferOn(host, ins.data.val,
                                          LittleEndianType(ins.type)) = payload
                 /\ writeInstruction(NewOStream, ins, "proceed").kind = "ok" =>
                       EndsWith(Emitted(ins),
                                ToUint32(ins.type) \o SEP \o ToUint32(Len(payload))
                                \o SEP \o payload \o RBR)

\* A big-endian record whose bytes are not the same in both orders has been
\* accepted and written.
C21_Witness ==
    /\ mode = "bytes"
    /\ ppc = "accepted"
    /\ wpc = "true"
    /\ \E i \in 1..Len(body) :
          /\ body[i].type \in {REG_DWORD_BIG_ENDIAN, REG_QWORD_BIG_ENDIAN}
          /\ body[i].data.val # Reverse(body[i].data.val)

C23_WriteErrorSurfaces ==
    (file.has_body /\ os.fail) => wpc # "true"

\* The instructions and the documents with a body that a state holds: the
\* document written or returned, the body parsed, and the document with its
\* instructions in reverse order.
InstructionsHere ==
    {file.instructions[i] : i \in 1..Len(file.instructions)}
    \cup {body[i] : i \in 1..Len(body)}

DocumentsHere ==
    {PolicyFile(TRUE, body)}
    \cup (IF file.has_body
          THEN {file, PolicyFile(TRUE, Reverse(file.instructions))} ELSE {})

\* C24, structural equality: two instructions compare equal exactly when
\* their type and data (the active alternative and its contents) are equal, the
\* key and value being compared beside them, and compare different exactly
\* when they do not compare equal; two documents with a body compare equal
\* exactly when they hold instructions equal in key, value, type and data at
\* every position, in the same number.
C24_StructuralEquality ==
    /\ \A a \in InstructionsHere : \A b \in InstructionsHere :
          /\ (a.key = b.key /\ a.value = b.value /\ PolicyInstructionEq(a, b))
                <=> a = b
          /\ PolicyInstructionNe(a, b) <=> ~PolicyInstructionEq(a, b)
    /\ \A a \in DocumentsHere : \A b \in DocumentsHere :
          equal(a, b) <=> a.instructions = b.instructions

\* The same without the operator != of instructions.
C24_ApartFromNe ==
    /\ \A a \in InstructionsHere : \A b \in InstructionsHere :
          (a.key = b.key /\ a.value = b.value /\ PolicyInstructionEq(a, b))
             <=> a = b
    /\ \A a \in DocumentsHere : \A b \in DocumentsHere :
          equal(a, b) <=> a.instructions = b.instructions

\* getKey on the first segment of the key of the i-th instruction read: the
\* stream stands two bytes behind the offset the instruction began at.
FirstKey(i) == getKey(input, [NewStream EXCEPT !.pos = starts[i] + 2])

\* The offset behind the last unit getKey read for a segment it returned: the
\* segment's units and the unit that ended it.
BehindLastRead(i) == starts[i] + 2 + 2 * (Len(FirstKey(i).val) + 1)

\* C25, forward only: apart from the one-byte step back at the top of the
\* instruction loop no step of parse moves the read position backwards; so
\* getKey, for every instruction read, leaves the position behind the last
\* unit it has read.
C25_ForwardOnly ==
    mode = "bytes" =>
       \A i \in 1..Len(body) :
          /\ FirstKey(i).kind = "ok"
          /\ FirstKey(i).st.pos >= BehindLastRead(i)

\* C26, the transcoding contexts: never more than the two descriptors of the
\* constructor are open, so no call of parse or write opens one that stays
\* open; and once the parser is destroyed none is open.
C26_ContextsReleased ==
    /\ iconvs <= 2
    /\ destroyed => iconvs = 0

C27_ApartFromC28 ==
    /\ [][(ppc = "loop" /\ ppc' = "loop") => rd'.pos > rd.pos]_vars
    /\ (mode = "bytes" \/ wpc = "true") ~> ParseEnded

\* The declared sizes of the records of the input.
DeclaredSizes == {ToNat(wire.recs[i].size) : i \in 1..Len(wire.recs)}

\* A read that stays inside its destination, whose length did not wrap.
ReadFits(store) == ~store.wraps /\ store.n <= store.holds

\* C28, memory safety of the read primitives: for every declared size of the
\* input and every integer width, each primitive's read of n bytes goes into
\* a buffer that holds at least n bytes and whose length did not come from a
\* subtraction that wrapped below zero.
C28_ReadsFitBuffers ==
    /\ \A size \in DeclaredSizes :
          /\ ReadFits(bufferToStringStore(size))
          /\ ReadFits(bufferToStringsStore(size))
          /\ ReadFits(bufferToVectorStore(size))
    /\ \A width \in Widths : ReadFits(bufferToIntegralStore(width))
    /\ ReadFits(bufferToUint64Store)

\* C28 for the primitives whose buffers do fit: bufferToVector and the
\* bufferToIntegral templates at every size and width, bufferToStrings at
\* every size but 0 and bufferToString at every even size from 2.
C28_WhereBuffersFit ==
    /\ \A size \in DeclaredSizes :
          /\ (size >= 2 /\ size % 2 = 0) => ReadFits(bufferToStringStore(size))
          /\ size >= 1 => ReadFits(bufferToStringsStore(size))
          /\ ReadFits(bufferToVectorStore(size))
    /\ \A width \in Widths : ReadFits(bufferToIntegralStore(width))

\* The texts of the document, which write converts to UTF-16LE.
WrittenTexts ==
    UNION {TextsOf(file.instructions[i]) : i \in 1..Len(file.instructions)}

\* The payloads of the input taken as UTF-16LE code units, which parse
\* converts to UTF-8.
ReadUnits ==
    {UnitsOf(wire.recs[i].data) :
       i \in {j \in 1..Len(wire.recs) : Len(wire.recs[j].data) % 2 = 0}}

\* The converted form, when there is one, is no longer than convert's output
\* array.
WithinOneChunk(out, unitBytes) ==
    out.has_value => unitBytes * Len(out.value) <= 512

\* C29, convert: a text of any length is converted whole, UTF-8 to UTF-16LE
\* and UTF-16LE to UTF-8, whatever the length of the converted form; convert
\* gives no result only for a text that is invalid in its encoding.
C29_ConvertsWhole ==
    /\ \A text \in WrittenTexts : convert(text, FALSE) = Utf8ToUtf16(text)
    /\ \A units \in ReadUnits : convert(units, TRUE) = Utf16ToUtf8(units)

\* C29 for the texts whose converted form fits the output array at once.
C29_WithinOneChunk ==
    /\ \A text \in WrittenTexts :
          WithinOneChunk(Utf8ToUtf16(text), 2)
             => convert(text, FALSE) = Utf8ToUtf16(text)
    /\ \A units \in ReadUnits :
          WithinOneChunk(Utf16ToUtf8(units), 1)
             => convert(units, TRUE) = Utf16ToUtf8(units)

WrongShape(instruction) ==
    instruction.type # REG_NONE /\ instruction.data.tag # ShapeOf(instruction.type)

\* What write emits for an instruction before its size field: the opening
\* bracket, key, value and type, and their separators.
BeforeSize(o, instruction) ==
    putSym(
      putUint32(
        putSym(
          putString(
            putSym(
              putString(
                putSym(Wrote(o, 0), 91),
                instruction.key),
              59),
            instruction.value),
          59),
        ToUint32(instruction.type)),
      59)

\* The step of write at the instruction it has come to ends in an error, with
\* no more emitted for it than what precedes the size field.
RejectedHere ==
    /\ wpc' = "error"
    /\ wi' = wi
    /\ os' = BeforeSize(os, file.instructions[wi + 1]).o

AtInstruction(bad(_)) ==
    /\ wpc = "instr"
    /\ wi < Len(file.instructions)
    /\ bad(file.instructions[wi + 1])

IsRegNone(instruction) == instruction.type = REG_NONE

RegNoneOrWrongShape(instruction) == IsRegNone(instruction) \/ WrongShape(instruction)

\* C30, write of an instruction that cannot be written: when write comes to
\* an instruction of type REG_NONE, or one whose data has another shape than
\* its type requires, it ends in an error signalled to its caller, having
\* emitted no size field and no payload for that instruction; it does not go
\* on to report success.
C30_BadInstructionRejected ==
    [][AtInstruction(RegNoneOrWrongShape) => RejectedHere]_vars

\* C30 for data of the wrong shape alone.
C30_WrongShapeRejected ==
    [][AtInstruction(WrongShape) => RejectedHere]_vars

=============================================================================
